---- MODULE Spec2Model ----
(***************************************************************************)
(* Key management of the OQS provider (oqsprov/oqs_kmgmt.c): the key       *)
(* object operations has, match, import, export, set_params and load, and *)
(* the generation context operations gen_init, gen_set_params, gen and     *)
(* gen_cleanup.                                                            *)
(*                                                                         *)
(* A pointer to a byte buffer is a record [null, bytes]; a pointer to a    *)
(* C string is a record [null, str]; a key handle is a key identifier or   *)
(* NULLKEY.  Integer results are the C ints 0 and 1.                       *)
(***************************************************************************)
EXTENDS Integers, Sequences, FiniteSets, TLC

VARIABLES keys, sink, reference, loads, last, gctx, heap

vars == <<keys, sink, reference, loads, last, gctx, heap>>

----------------------------------------------------------------------------
(* Bounds of the model *)

\* key and parameter bytes range over 0..MaxByte
MaxByte == 1

\* number of oqsx_load calls made on the reference
MaxLoads == 3

\* number of blocks allocated on behalf of one generation context
MaxAllocs == 4

----------------------------------------------------------------------------
(* Selection bits of the key management interface *)

OSSL_KEYMGMT_SELECT_PRIVATE_KEY == 1

OSSL_KEYMGMT_SELECT_PUBLIC_KEY == 2

OSSL_KEYMGMT_SELECT_DOMAIN_PARAMETERS == 4

OSSL_KEYMGMT_SELECT_OTHER_PARAMETERS == 128

OSSL_KEYMGMT_SELECT_ALL_PARAMETERS ==
    OSSL_KEYMGMT_SELECT_DOMAIN_PARAMETERS + OSSL_KEYMGMT_SELECT_OTHER_PARAMETERS

OSSL_KEYMGMT_SELECT_KEYPAIR ==
    OSSL_KEYMGMT_SELECT_PRIVATE_KEY + OSSL_KEYMGMT_SELECT_PUBLIC_KEY

\* the C operator & on non-negative ints
RECURSIVE BitAnd(_, _)
BitAnd(a, b) ==
    IF a = 0 \/ b = 0 THEN 0
    ELSE (a % 2) * (b % 2) + 2 * BitAnd(a \div 2, b \div 2)

SelectionBits ==
    { OSSL_KEYMGMT_SELECT_PRIVATE_KEY, OSSL_KEYMGMT_SELECT_PUBLIC_KEY,
      OSSL_KEYMGMT_SELECT_DOMAIN_PARAMETERS, OSSL_KEYMGMT_SELECT_OTHER_PARAMETERS }

RECURSIVE SumOf(_)
SumOf(S) == IF S = {} THEN 0 ELSE LET x == CHOOSE y \in S : TRUE IN x + SumOf(S \ {x})

\* every selection mask built from the four selection bits
Selections == { SumOf(S) : S \in SUBSET SelectionBits }

----------------------------------------------------------------------------
(* Pointers, buffers and key objects *)

NULL == [null |-> TRUE, bytes |-> <<>>]

Buf(b) == [null |-> FALSE, bytes |-> b]

NULLSTR == [null |-> TRUE, str |-> ""]

Str(s) == [null |-> FALSE, str |-> s]

NULLKEY == "NULL"

KeyIds == {"k1", "k2"}

Handles == KeyIds \cup {NULLKEY}

Bytes == 0..MaxByte

BytesOfLen(n) == [1..n -> Bytes]

Zeros(n) == [i \in 1..n |-> 0]

Names == {"dilithium2", "kyber512"}

\* declared key lengths of the algorithm registry, scaled down
pubkeylen(name) == IF name = "dilithium2" THEN 1 ELSE 2

privkeylen(name) == IF name = "dilithium2" THEN 2 ELSE 1

\* OQSX_KEY as oqsx_key_new leaves it: no key parts
oqsx_key_new(name, propq) ==
    [ oqs_name   |-> name,
      pubkeylen  |-> pubkeylen(name),
      privkeylen |-> privkeylen(name),
      pubkey     |-> NULL,
      privkey    |-> NULL,
      propq      |-> propq ]

PubBufs(name) == {NULL} \cup { Buf(b) : b \in BytesOfLen(pubkeylen(name)) }

PrivBufs(name) == {NULL} \cup { Buf(b) : b \in BytesOfLen(privkeylen(name)) }

\* the key objects without property query, with any combination of parts
KeyObjects ==
    UNION { { [oqsx_key_new(n, NULLSTR) EXCEPT !.pubkey = pb, !.privkey = pv] :
                pb \in PubBufs(n), pv \in PrivBufs(n) } : n \in Names }

----------------------------------------------------------------------------
(* Library primitives used by the key management *)

strcmp(s, t) == IF s = t THEN 0 ELSE 1

Prefix(b, len) == SubSeq(b, 1, IF len < Len(b) THEN len ELSE Len(b))

\* CRYPTO_memcmp over len bytes of two non-null buffers
CRYPTO_memcmp(a, b, len) == IF Prefix(a.bytes, len) = Prefix(b.bytes, len) THEN 0 ELSE 1

----------------------------------------------------------------------------
(* oqsx_has *)

oqsx_has_nopriv(keydata, selection) ==
    IF keydata # NULLKEY
    THEN IF BitAnd(selection, OSSL_KEYMGMT_SELECT_PUBLIC_KEY) # 0
         THEN (IF ~keys[keydata].pubkey.null THEN 1 ELSE 0)
         ELSE 1
    ELSE 0

oqsx_has(keydata, selection) ==
    IF keydata # NULLKEY
    THEN LET ok0 == 1
             ok1 == IF BitAnd(selection, OSSL_KEYMGMT_SELECT_PUBLIC_KEY) # 0
                    THEN (IF ok0 # 0 /\ ~keys[keydata].pubkey.null THEN 1 ELSE 0)
                    ELSE ok0
             ok2 == IF BitAnd(selection, OSSL_KEYMGMT_SELECT_PRIVATE_KEY) # 0
                    THEN (IF ok1 # 0 /\ ~keys[keydata].privkey.null THEN 1 ELSE 0)
                    ELSE ok1
         IN ok2
    ELSE 0

----------------------------------------------------------------------------
(* oqsx_match: the three selection branches in source order.  A call that  *)
(* reaches CRYPTO_memcmp with a null second buffer reads through a null    *)
(* pointer: every outcome the build can produce is possible.               *)

Ret(r) == [ret |-> r, fault |-> FALSE]

Undefined == { Ret(0), Ret(1), [ret |-> 0, fault |-> TRUE] }

match_domain(key1, key2, selection, ok) ==
    IF BitAnd(selection, OSSL_KEYMGMT_SELECT_DOMAIN_PARAMETERS) # 0
    THEN (IF ok # 0 /\ strcmp(key1.oqs_name, key2.oqs_name) = 0 THEN 1 ELSE 0)
    ELSE ok

match_private_prefix(key1, key2, selection, ok) ==
    IF BitAnd(selection, OSSL_KEYMGMT_SELECT_PRIVATE_KEY) # 0
    THEN IF \/ (key1.privkey.null /\ ~key2.privkey.null)
            \/ (~key1.privkey.null /\ key2.privkey.null)
            \/ strcmp(key1.oqs_name, key2.oqs_name) # 0
         THEN 0
         ELSE (IF ok # 0 /\ ( \/ key1.privkey.null
                              \/ CRYPTO_memcmp(key1.privkey, key2.privkey,
                                               key1.privkeylen - 1) = 0 )
               THEN 1 ELSE 0)
    ELSE ok

match_private(key1, key2, selection, ok) ==
    IF BitAnd(selection, OSSL_KEYMGMT_SELECT_PRIVATE_KEY) # 0
    THEN IF \/ (key1.privkey.null /\ ~key2.privkey.null)
            \/ (~key1.privkey.null /\ key2.privkey.null)
            \/ strcmp(key1.oqs_name, key2.oqs_name) # 0
         THEN 0
         ELSE (IF ok # 0 /\ ( \/ key1.privkey.null
                              \/ CRYPTO_memcmp(key1.privkey, key2.privkey,
                                               key1.privkeylen) = 0 )
               THEN 1 ELSE 0)
    ELSE ok

match_public_symmetric(key1, key2, selection, ok) ==
    IF BitAnd(selection, OSSL_KEYMGMT_SELECT_PUBLIC_KEY) # 0
    THEN IF \/ (key1.pubkey.null /\ ~key2.pubkey.null)
            \/ (~key1.pubkey.null /\ key2.pubkey.null)
            \/ strcmp(key1.oqs_name, key2.oqs_name) # 0
         THEN { Ret(0) }
         ELSE { Ret(IF ok # 0 /\ ( \/ key1.pubkey.null
                                   \/ CRYPTO_memcmp(key1.pubkey, key2.pubkey,
                                                    key1.pubkeylen) = 0 )
                    THEN 1 ELSE 0) }
    ELSE { Ret(ok) }

\* the set of outcomes of the public-key branch
match_public(key1, key2, selection, ok) ==
    IF BitAnd(selection, OSSL_KEYMGMT_SELECT_PUBLIC_KEY) # 0
    THEN IF \/ (~key1.pubkey.null /\ ~key2.pubkey.null)
            \/ strcmp(key1.oqs_name, key2.oqs_name) # 0
         THEN { Ret(0) }
         ELSE IF ok = 0 THEN { Ret(0) }
              ELSE IF key1.pubkey.null THEN { Ret(1) }
              ELSE IF key2.pubkey.null /\ key1.pubkeylen > 0 THEN Undefined
              ELSE { Ret(IF CRYPTO_memcmp(key1.pubkey, key2.pubkey,
                                          key1.pubkeylen) = 0 THEN 1 ELSE 0) }
    ELSE { Ret(ok) }

\* the set of outcomes of oqsx_match on two non-null key handles
oqsx_match(keydata1, keydata2, selection) ==
    LET key1 == keys[keydata1]
        key2 == keys[keydata2]
        ok1  == match_domain(key1, key2, selection, 1)
        ok2  == match_private(key1, key2, selection, ok1)
    IN match_public(key1, key2, selection, ok2)

----------------------------------------------------------------------------
(* Parameter arrays.  An OSSL_PARAM array is a record with one entry per   *)
(* parameter name the key management locates; an entry that is not in the  *)
(* array has present = FALSE.                                              *)

OSSL_PARAM_OCTET_STRING == "OCTET_STRING"

OSSL_PARAM_UTF8_STRING == "UTF8_STRING"

DataTypes == {OSSL_PARAM_OCTET_STRING, OSSL_PARAM_UTF8_STRING}

NoOctets == [present |-> FALSE, data_type |-> OSSL_PARAM_OCTET_STRING,
             data |-> NULL, data_size |-> 0]

NoText == [present |-> FALSE, data_type |-> OSSL_PARAM_UTF8_STRING, data |-> NULLSTR]

Octets(type, b) == [present |-> TRUE, data_type |-> type, data |-> Buf(b),
                    data_size |-> Len(b)]

Text(type, d) == [present |-> TRUE, data_type |-> type, data |-> d]

EmptyParams == [encoded_pub_key |-> NoOctets, properties |-> NoText,
                pub |-> NoOctets, priv |-> NoOctets]

\* a pointer to a parameter array
NULLPARAMS == [null |-> TRUE, entries |-> EmptyParams]

ParamsOf(e) == [null |-> FALSE, entries |-> e]

OSSL_PARAM_locate(params, key) ==
    IF params.null THEN (IF key = "properties" THEN NoText ELSE NoOctets)
    ELSE params.entries[key]

\* sizes a caller may give an octet string: the declared lengths and the empty string
DataSizes == {0} \cup { pubkeylen(n) : n \in Names } \cup { privkeylen(n) : n \in Names }

OctetData == UNION { BytesOfLen(n) : n \in DataSizes }

OctetEntries ==
    {NoOctets}
      \cup { Octets(t, b) : t \in DataTypes, b \in OctetData }
      \cup { [present |-> TRUE, data_type |-> OSSL_PARAM_OCTET_STRING,
              data |-> NULL, data_size |-> n] : n \in DataSizes }

PropQueries == {"provider=oqsprovider", "provider=default"}

TextEntries ==
    {NoText} \cup { Text(t, d) : t \in DataTypes,
                                 d \in {NULLSTR} \cup { Str(q) : q \in PropQueries } }

\* OSSL_PARAM_get_octet_string(p, &val, max_len, &used_len): the new *val, or
\* failure with *val as it was
OSSL_PARAM_get_octet_string(p, val, max_len, mallocOk) ==
    IF p.data_type # OSSL_PARAM_OCTET_STRING \/ p.data.null
    THEN [ok |-> FALSE, val |-> val]
    ELSE IF val.null /\ ~mallocOk
    THEN [ok |-> FALSE, val |-> val]
    ELSE IF ~val.null /\ max_len < p.data_size
    THEN [ok |-> FALSE, val |-> val]
    ELSE [ok |-> TRUE, val |-> Buf(p.data.bytes)]

\* the memory a buffer leaves behind once OPENSSL_clear_free(ptr, len) released it
OPENSSL_clear_free(ptr, len) ==
    IF ptr.null THEN <<>>
    ELSE << [i \in 1..Len(ptr.bytes) |-> IF i <= len THEN 0 ELSE ptr.bytes[i]] >>

OPENSSL_strdup(s, strdupOk) == IF strdupOk THEN Str(s.str) ELSE NULLSTR

----------------------------------------------------------------------------
(* oqsx_set_params *)

set_property_query(oqsxkey, propq, strdupOk) ==
    LET cleared == [oqsxkey EXCEPT !.propq = NULLSTR]
    IN IF ~propq.null
       THEN LET copy == OPENSSL_strdup(propq, strdupOk)
            IN IF copy.null THEN [ret |-> 0, key |-> cleared]
               ELSE [ret |-> 1, key |-> [cleared EXCEPT !.propq = copy]]
       ELSE [ret |-> 1, key |-> cleared]

\* the encoded-public-key part of oqsx_set_params, with the private key kept
set_encoded_public_key_keep(oqsxkey, p, mallocOk) ==
    IF p.present
    THEN LET got == OSSL_PARAM_get_octet_string(p, oqsxkey.pubkey,
                                                oqsxkey.pubkeylen, mallocOk)
         IN IF p.data_size # oqsxkey.pubkeylen \/ ~got.ok
            THEN [ret |-> 0, key |-> oqsxkey, released |-> <<>>]
            ELSE [ret |-> 1, key |-> [oqsxkey EXCEPT !.pubkey = got.val],
                  released |-> <<>>]
    ELSE [ret |-> 1, key |-> oqsxkey, released |-> <<>>]

\* the encoded-public-key part of oqsx_set_params
set_encoded_public_key(oqsxkey, p, mallocOk) ==
    IF p.present
    THEN LET got == OSSL_PARAM_get_octet_string(p, oqsxkey.pubkey,
                                                oqsxkey.pubkeylen, mallocOk)
         IN IF p.data_size # oqsxkey.pubkeylen \/ ~got.ok
            THEN [ret |-> 0, key |-> oqsxkey, released |-> <<>>]
            ELSE [ret |-> 1,
                  key |-> [oqsxkey EXCEPT !.pubkey = got.val, !.privkey = NULL],
                  released |-> OPENSSL_clear_free(oqsxkey.privkey, oqsxkey.privkeylen)]
    ELSE [ret |-> 1, key |-> oqsxkey, released |-> <<>>]

\* the property-query part of oqsx_set_params
set_properties(oqsxkey, p, strdupOk) ==
    IF p.present
    THEN IF p.data_type # OSSL_PARAM_UTF8_STRING
         THEN [ret |-> 0, key |-> oqsxkey]
         ELSE set_property_query(oqsxkey, p.data, strdupOk)
    ELSE [ret |-> 1, key |-> oqsxkey]

oqsx_set_params(key, params, mallocOk, strdupOk) ==
    LET r1 == set_encoded_public_key(
                  key, OSSL_PARAM_locate(params, "encoded_pub_key"), mallocOk)
        r2 == set_properties(r1.key, OSSL_PARAM_locate(params, "properties"), strdupOk)
    IN IF r1.ret = 0 THEN r1
       ELSE [ret |-> r2.ret, key |-> r2.key, released |-> r1.released]

----------------------------------------------------------------------------
(* oqsx_export *)

\* OSSL_PARAM_set_octet_string(p, val, len) on a located entry
OSSL_PARAM_set_octet_string(p, val, len) ==
    IF val.null THEN [ok |-> FALSE, p |-> p]
    ELSE IF p.data.null THEN [ok |-> TRUE, p |-> p]
    ELSE IF p.data_size < len THEN [ok |-> FALSE, p |-> p]
    ELSE [ok |-> TRUE, p |-> [p EXCEPT !.data = Buf(Prefix(val.bytes, len))]]

\* OSSL_PARAM_BLD_new: a builder holding no entry, or no builder
OSSL_PARAM_BLD_new(bldOk) == IF bldOk THEN ParamsOf(EmptyParams) ELSE NULLPARAMS

\* OSSL_PARAM_BLD_to_param: the array of the entries pushed to the builder
OSSL_PARAM_BLD_to_param(tmpl, toParamOk) == IF toParamOk THEN tmpl ELSE NULLPARAMS

\* whether filling the located entries fails (goto err)
export_fill_fails(key, selection, params) ==
    LET p1 == OSSL_PARAM_locate(params, "pub")
        p2 == OSSL_PARAM_locate(params, "priv")
    IN /\ \/ BitAnd(selection, OSSL_KEYMGMT_SELECT_ALL_PARAMETERS) # 0
          \/ BitAnd(selection, OSSL_KEYMGMT_SELECT_KEYPAIR) # 0
       /\ \/ p1.present /\ ~OSSL_PARAM_set_octet_string(p1, key.pubkey, key.pubkeylen).ok
          \/ p2.present /\ ~OSSL_PARAM_set_octet_string(p2, key.privkey, key.privkeylen).ok

\* the end of oqsx_export with the test of the built array left out
export_deliver_unchecked(tmpl, toParamOk, cbret) ==
    [ret |-> cbret, calls |-> << OSSL_PARAM_BLD_to_param(tmpl, toParamOk) >>]

\* the end of oqsx_export: build the array and hand it to the callback
export_deliver(tmpl, toParamOk, cbret) ==
    LET params == OSSL_PARAM_BLD_to_param(tmpl, toParamOk)
    IN IF params.null THEN [ret |-> 0, calls |-> <<>>]
       ELSE [ret |-> cbret, calls |-> <<params>>]

\* ret and the parameter arrays the callback was invoked with, in order
oqsx_export(keydata, selection, bldOk, toParamOk, cbret) ==
    IF keydata = NULLKEY THEN [ret |-> 0, calls |-> <<>>]
    ELSE LET tmpl == OSSL_PARAM_BLD_new(bldOk)
             params == NULLPARAMS
         IN IF tmpl.null THEN [ret |-> 0, calls |-> <<>>]
            ELSE IF export_fill_fails(keys[keydata], selection, params)
            THEN [ret |-> 0, calls |-> <<>>]
            ELSE export_deliver(tmpl, toParamOk, cbret)

----------------------------------------------------------------------------
(* oqsx_import *)

WellFormed(p, len) ==
    p.data_type = OSSL_PARAM_OCTET_STRING /\ ~p.data.null /\ p.data_size = len

\* oqsx_key_fromdata: populates the key parts named in the parameter array;
\* fails, keeping the key as it was, when an entry is malformed or none is given
oqsx_key_fromdata(key, params, include_private) ==
    LET pp == OSSL_PARAM_locate(params, "pub")
        ps == OSSL_PARAM_locate(params, "priv")
    IN IF \/ ~pp.present /\ ~ps.present
          \/ pp.present /\ ~WellFormed(pp, key.pubkeylen)
          \/ ps.present /\ ~WellFormed(ps, key.privkeylen)
       THEN [ret |-> 0, key |-> key]
       ELSE [ret |-> 1,
             key |-> [key EXCEPT
                        !.pubkey = IF pp.present THEN Buf(pp.data.bytes) ELSE @,
                        !.privkey = IF ps.present /\ include_private # 0
                                    THEN Buf(ps.data.bytes) ELSE @]]

\* ret and the key objects after the call
oqsx_import(keydata, selection, params) ==
    IF keydata = NULLKEY THEN [ret |-> 0, keys |-> keys]
    ELSE IF BitAnd(selection, OSSL_KEYMGMT_SELECT_ALL_PARAMETERS) # 0
    THEN LET r == oqsx_key_fromdata(keys[keydata], params, 1)
         IN [ret |-> IF r.ret # 0 THEN 1 ELSE 0,
             keys |-> [keys EXCEPT ![keydata] = r.key]]
    ELSE [ret |-> 0, keys |-> keys]

----------------------------------------------------------------------------
(* oqsx_load: the reference is a memory cell holding a key handle *)

\* sizeof(key), the size of a key pointer
sizeof_key == 8

ReferenceSizes == {0, sizeof_key \div 2, sizeof_key, 2 * sizeof_key}

oqsx_load_keep(ref, reference_sz) ==
    IF reference_sz = sizeof_key
    THEN [key |-> ref, reference |-> ref]
    ELSE [key |-> NULLKEY, reference |-> ref]

\* the key returned and the content of the reference after the call
oqsx_load(ref, reference_sz) ==
    IF reference_sz = sizeof_key
    THEN [key |-> ref, reference |-> NULLKEY]
    ELSE [key |-> NULLKEY, reference |-> ref]

----------------------------------------------------------------------------
(* Key generation into a key object (oqsx_key_gen): fills both parts, or   *)
(* reports an error and leaves them unset.  C convention: 0 is success.    *)

oqsx_key_gen(key, pub, priv, genOk) ==
    IF genOk
    THEN [ret |-> 0, key |-> [key EXCEPT !.pubkey = Buf(pub), !.privkey = Buf(priv)]]
    ELSE [ret |-> 1, key |-> key]

----------------------------------------------------------------------------
(* Generation context.  The heap is the sequence of the blocks allocated   *)
(* so far, each with the number of times it was released; a pointer is the *)
(* index of its block, 0 the null pointer.                                 *)

Block(kind, str, owner) == [kind |-> kind, str |-> str, frees |-> 0, owner |-> owner]

\* OPENSSL_free on the heap: free(NULL) does nothing
OPENSSL_free(h, ptr) == IF ptr = 0 THEN h ELSE [h EXCEPT ![ptr].frees = @ + 1]

\* the C string a pointer points to
StrAt(h, ptr) == IF ptr = 0 THEN NULLSTR ELSE Str(h[ptr].str)

\* OPENSSL_strdup on the heap: the copy, or NULL for a null source or no memory
heap_strdup(h, kind, s, ok) ==
    IF s.null \/ ~ok THEN [ptr |-> 0, heap |-> h]
    ELSE [ptr |-> Len(h) + 1, heap |-> Append(h, Block(kind, s.str, "gctx"))]

Primitives == {"KEY_TYPE_SIG", "KEY_TYPE_KEM"}

\* struct oqsx_gen_ctx; ptr is the address of the structure, 0 when there is none
NoCtx == [ptr |-> 0, libctx |-> "", propq |-> 0, oqs_name |-> 0, tls_name |-> 0,
          primitive |-> "KEY_TYPE_SIG", selection |-> 0]

\* the context returned (ptr 0: none) and the heap after the call
oqsx_gen_init(h, selection, oqs_name, primitive, zallocOk, strdupOk) ==
    IF zallocOk
    THEN LET h1 == Append(h, Block("gctx", "", "framework"))
             nm == heap_strdup(h1, "oqs_name", Str(oqs_name), strdupOk)
         IN [ gctx |-> [ ptr |-> Len(h1), libctx |-> "libctx", propq |-> 0,
                         oqs_name |-> nm.ptr, tls_name |-> 0,
                         primitive |-> primitive, selection |-> selection ],
              heap |-> nm.heap ]
    ELSE [gctx |-> NoCtx, heap |-> h]

GroupNames == {"kyber512", "p256_kyber512"}

GroupEntries == {NoText} \cup { Text(OSSL_PARAM_UTF8_STRING, Str(g)) : g \in GroupNames }

\* the group-name part of oqsx_gen_set_params
gen_set_group_name(c, h, p, strdupOk) ==
    IF p.present
    THEN LET cp == heap_strdup(h, "tls_name", p.data, strdupOk)
         IN [gctx |-> [c EXCEPT !.tls_name = cp.ptr], heap |-> cp.heap]
    ELSE [gctx |-> c, heap |-> h]

\* the property-query part of oqsx_gen_set_params
gen_set_properties(c, h, p, strdupOk) ==
    IF p.present
    THEN IF p.data_type # OSSL_PARAM_UTF8_STRING
         THEN [ret |-> 0, gctx |-> c, heap |-> h]
         ELSE LET h1 == OPENSSL_free(h, c.propq)
                  cp == heap_strdup(h1, "propq", p.data, strdupOk)
              IN [ ret |-> IF cp.ptr = 0 THEN 0 ELSE 1,
                   gctx |-> [c EXCEPT !.propq = cp.ptr], heap |-> cp.heap ]
    ELSE [ret |-> 1, gctx |-> c, heap |-> h]

\* genctx is the pointer passed: c.ptr, or 0
oqsx_gen_set_params(genctx, c, h, group, props, strdupOk1, strdupOk2) ==
    IF genctx = 0 THEN [ret |-> 0, gctx |-> c, heap |-> h]
    ELSE LET r1 == gen_set_group_name(c, h, group, strdupOk1)
         IN gen_set_properties(r1.gctx, r1.heap, props, strdupOk2)

\* the key returned (0: none) and the heap after the call; oqsx_key_new
\* allocates the key object, oqsx_key_gen fills it or reports an error
oqsx_genkey(genctx, c, h, keyNewOk, genOk) ==
    IF genctx = 0 THEN [key |-> 0, heap |-> h]
    ELSE IF ~keyNewOk THEN [key |-> 0, heap |-> h]
    ELSE LET name == StrAt(h, c.oqs_name).str
             fresh == oqsx_key_new(name, StrAt(h, c.propq))
             r == oqsx_key_gen(fresh, Zeros(fresh.pubkeylen), Zeros(fresh.privkeylen), genOk)
         IN IF r.ret # 0
            THEN [key |-> 0, heap |-> Append(h, Block("key", name, "none"))]
            ELSE [key |-> Len(h) + 1, heap |-> Append(h, Block("key", name, "caller"))]

oqsx_gen(genctx, c, h, keyNewOk, genOk) == oqsx_genkey(genctx, c, h, keyNewOk, genOk)

\* the heap after oqsx_gen_cleanup
oqsx_gen_cleanup(c, h) == OPENSSL_free(OPENSSL_free(h, c.propq), c.ptr)

\* the parameter types oqs_imexport_types names for a selection
oqsx_key_types == {"pub", "priv"}

oqs_imexport_types(selection) ==
    IF BitAnd(selection, OSSL_KEYMGMT_SELECT_KEYPAIR) # 0 THEN oqsx_key_types ELSE {}

----------------------------------------------------------------------------
(* Actions: one per entry point called by the framework.  The framework    *)
(* makes one call at a time and takes its result before the next call.     *)

NoCall == [op |-> "none"]

NoSink == [called |-> FALSE, params |-> NULLPARAMS, keydata |-> NULLKEY, selection |-> 0]

Return ==
    /\ last # NoCall
    /\ last' = NoCall
    /\ UNCHANGED <<gctx, heap, keys, sink, reference, loads>>

Has(keydata, selection) ==
    /\ last = NoCall
    /\ last' = [ op |-> "has", keydata |-> keydata, selection |-> selection,
                 ret |-> oqsx_has(keydata, selection) ]
    /\ UNCHANGED <<gctx, heap, keys, sink, reference, loads>>

Match(keydata1, keydata2, selection) ==
    /\ last = NoCall
    /\ \E r \in oqsx_match(keydata1, keydata2, selection) :
         last' = [ op |-> "match", keydata1 |-> keydata1, keydata2 |-> keydata2,
                   selection |-> selection, ret |-> r.ret, fault |-> r.fault ]
    /\ UNCHANGED <<gctx, heap, keys, sink, reference, loads>>

KeyGen(k, genOk) ==
    /\ last = NoCall
    /\ keys[k].pubkey.null /\ keys[k].privkey.null
    /\ \E pub \in BytesOfLen(keys[k].pubkeylen), priv \in BytesOfLen(keys[k].privkeylen) :
         LET r == oqsx_key_gen(keys[k], pub, priv, genOk)
         IN /\ keys' = [keys EXCEPT ![k] = r.key]
            /\ last' = [op |-> "key_gen", key |-> k, ret |-> r.ret]
    /\ UNCHANGED <<gctx, heap, sink, reference, loads>>

SetParams(k, epk, props, mallocOk, strdupOk) ==
    /\ last = NoCall
    /\ LET params == ParamsOf([EmptyParams EXCEPT !.encoded_pub_key = epk,
                                                  !.properties = props])
           r == oqsx_set_params(keys[k], params, mallocOk, strdupOk)
       IN /\ keys' = [keys EXCEPT ![k] = r.key]
          /\ last' = [ op |-> "set_params", key |-> k, pre |-> keys[k],
                       params |-> params, ret |-> r.ret, released |-> r.released ]
    /\ UNCHANGED <<gctx, heap, sink, reference, loads>>

\* the callback is the sink: it keeps the array it was invoked with, and the
\* framework remembers which key and selection it exported
Export(keydata, selection, bldOk, toParamOk, cbret) ==
    /\ last = NoCall
    /\ LET r == oqsx_export(keydata, selection, bldOk, toParamOk, cbret)
       IN /\ last' = [ op |-> "export", keydata |-> keydata, selection |-> selection,
                       bldOk |-> bldOk, toParamOk |-> toParamOk, cbret |-> cbret,
                       pre |-> keys, ret |-> r.ret, calls |-> r.calls ]
          /\ sink' = IF r.calls # <<>>
                     THEN [called |-> TRUE, params |-> r.calls[Len(r.calls)],
                           keydata |-> keydata, selection |-> selection]
                     ELSE sink
    /\ UNCHANGED <<gctx, heap, keys, reference, loads>>

Import(keydata, selection, params, fromSink) ==
    /\ last = NoCall
    /\ LET r == oqsx_import(keydata, selection, params)
       IN /\ keys' = r.keys
          /\ last' = [ op |-> "import", keydata |-> keydata, selection |-> selection,
                       params |-> params, fromSink |-> fromSink, pre |-> keys,
                       ret |-> r.ret ]
    /\ UNCHANGED <<gctx, heap, sink, reference, loads>>

\* importing what the last export delivered
ImportExported(keydata, selection) ==
    /\ sink.called
    /\ Import(keydata, selection, sink.params, TRUE)

Load(reference_sz) ==
    /\ last = NoCall
    /\ Len(loads) < MaxLoads
    /\ LET r == oqsx_load(reference, reference_sz)
       IN /\ reference' = r.reference
          /\ loads' = Append(loads, [reference_sz |-> reference_sz, ret |-> r.key])
          /\ last' = [ op |-> "load", reference_sz |-> reference_sz,
                       pre |-> reference, ret |-> r.key ]
    /\ UNCHANGED <<gctx, heap, keys, sink>>

\* importing a parameter array the caller built
ImportParams(keydata, selection, pub, priv) ==
    Import(keydata, selection,
           ParamsOf([EmptyParams EXCEPT !.pub = pub, !.priv = priv]), FALSE)

GenInit(selection, oqs_name, primitive, zallocOk, strdupOk) ==
    /\ last = NoCall
    /\ gctx = NoCtx /\ heap = <<>>
    /\ LET r == oqsx_gen_init(heap, selection, oqs_name, primitive, zallocOk, strdupOk)
       IN /\ gctx' = r.gctx
          /\ heap' = r.heap
          /\ last' = [ op |-> "gen_init", selection |-> selection,
                       oqs_name |-> oqs_name, primitive |-> primitive,
                       ret |-> r.gctx.ptr ]
    /\ UNCHANGED <<keys, sink, reference, loads>>

\* genctx is the context the framework holds, or a null pointer
GenSetParams(genctx, group, props, strdupOk1, strdupOk2) ==
    /\ last = NoCall
    /\ genctx \in {0, gctx.ptr}
    /\ Len(heap) < MaxAllocs
    /\ LET r == oqsx_gen_set_params(genctx, gctx, heap, group, props,
                                    strdupOk1, strdupOk2)
       IN /\ gctx' = r.gctx
          /\ heap' = r.heap
          /\ last' = [ op |-> "gen_set_params", genctx |-> genctx, group |-> group,
                       props |-> props, pre |-> gctx, preheap |-> heap,
                       ret |-> r.ret ]
    /\ UNCHANGED <<keys, sink, reference, loads>>

Gen(genctx, keyNewOk, genOk) ==
    /\ last = NoCall
    /\ genctx \in {0, gctx.ptr}
    /\ Len(heap) < MaxAllocs
    /\ LET r == oqsx_gen(genctx, gctx, heap, keyNewOk, genOk)
       IN /\ heap' = r.heap
          /\ last' = [ op |-> "gen", genctx |-> genctx, keyNewOk |-> keyNewOk,
                       genOk |-> genOk, preheap |-> heap, ret |-> r.key ]
    /\ UNCHANGED <<gctx, keys, sink, reference, loads>>

\* the framework cleans a context up once, and does not use it afterwards
GenCleanup ==
    /\ last = NoCall
    /\ gctx.ptr # 0
    /\ heap' = oqsx_gen_cleanup(gctx, heap)
    /\ gctx' = NoCtx
    /\ last' = [op |-> "gen_cleanup", pre |-> gctx]
    /\ UNCHANGED <<keys, sink, reference, loads>>

----------------------------------------------------------------------------
(* Specifications *)

FreshKeys == { oqsx_key_new(n, NULLSTR) : n \in Names }

\* the key objects the lifecycle specification operates on
Managed == {"k1"}

\* the state after construction: key objects without key parts, nothing called
Init ==
    /\ keys \in [KeyIds -> FreshKeys]
    /\ sink = NoSink
    /\ reference = NULLKEY
    /\ loads = <<>>
    /\ last = NoCall
    /\ gctx = NoCtx
    /\ heap = <<>>

Next ==
    \/ /\ last = NoCall
       /\ \E k \in Managed, genOk \in BOOLEAN : KeyGen(k, genOk)
    \/ /\ last = NoCall
       /\ \E k \in Managed, epk \in OctetEntries, props \in TextEntries,
             mallocOk \in BOOLEAN, strdupOk \in BOOLEAN :
            SetParams(k, epk, props, mallocOk, strdupOk)
    \/ Return

Spec == Init /\ [][Next]_vars

\* two key objects in any state the provider can put them in, nothing called yet
InitQuery ==
    /\ keys \in [KeyIds -> KeyObjects]
    /\ sink = NoSink
    /\ reference = NULLKEY
    /\ loads = <<>>
    /\ last = NoCall
    /\ gctx = NoCtx
    /\ heap = <<>>

NextQuery ==
    \/ /\ last = NoCall
       /\ \E h \in Handles, s \in Selections : Has(h, s)
    \/ /\ last = NoCall
       /\ \E h1 \in KeyIds, h2 \in KeyIds, s \in Selections : Match(h1, h2, s)
    \/ Return

SpecQuery == InitQuery /\ [][NextQuery]_vars

\* a key object in any state (the source) and a freshly constructed one (the target)
InitRound ==
    /\ keys \in { f \in [KeyIds -> KeyObjects] : f["k2"] \in FreshKeys }
    /\ sink = NoSink
    /\ reference = NULLKEY
    /\ loads = <<>>
    /\ last = NoCall
    /\ gctx = NoCtx
    /\ heap = <<>>

\* a round trip: exports until the sink has received an array, then imports of it
NextRound ==
    \/ /\ last = NoCall
       /\ ~sink.called
       /\ \E h \in Handles, s \in Selections, bldOk \in BOOLEAN,
             toParamOk \in BOOLEAN, cbret \in {0, 1} :
            Export(h, s, bldOk, toParamOk, cbret)
    \/ /\ last = NoCall
       /\ \E h \in {"k2", NULLKEY}, s \in Selections : ImportExported(h, s)
    \/ Return

SpecRound == InitRound /\ [][NextRound]_vars

\* the framework holds a reference to one of the key objects
InitLoad ==
    /\ keys \in [KeyIds -> FreshKeys]
    /\ sink = NoSink
    /\ reference \in KeyIds
    /\ loads = <<>>
    /\ last = NoCall
    /\ gctx = NoCtx
    /\ heap = <<>>

NextLoad ==
    \/ /\ last = NoCall
       /\ \E sz \in ReferenceSizes : Load(sz)
    \/ Return

SpecLoad == InitLoad /\ [][NextLoad]_vars

\* octet strings of any offered size, as a caller puts them in an array
KeyEntries == {NoOctets} \cup { Octets(OSSL_PARAM_OCTET_STRING, b) : b \in OctetData }

InitImport ==
    /\ keys \in [KeyIds -> FreshKeys]
    /\ sink = NoSink
    /\ reference = NULLKEY
    /\ loads = <<>>
    /\ last = NoCall
    /\ gctx = NoCtx
    /\ heap = <<>>

NextImport ==
    \/ /\ last = NoCall
       /\ \E h \in Managed \cup {NULLKEY}, s \in Selections,
             pub \in KeyEntries, priv \in KeyEntries :
            ImportParams(h, s, pub, priv)
    \/ Return

SpecImport == InitImport /\ [][NextImport]_vars

\* the selections the framework generates keys for
GenSelections ==
    { OSSL_KEYMGMT_SELECT_KEYPAIR,
      OSSL_KEYMGMT_SELECT_KEYPAIR + OSSL_KEYMGMT_SELECT_ALL_PARAMETERS }

\* no generation context yet, nothing allocated
InitGen ==
    /\ keys = [k \in KeyIds |-> oqsx_key_new("dilithium2", NULLSTR)]
    /\ sink = NoSink
    /\ reference = NULLKEY
    /\ loads = <<>>
    /\ last = NoCall
    /\ gctx = NoCtx
    /\ heap = <<>>

NextGen ==
    \/ /\ last = NoCall
       /\ \E s \in GenSelections, n \in Names, prim \in Primitives,
             zallocOk \in BOOLEAN, strdupOk \in BOOLEAN :
            GenInit(s, n, prim, zallocOk, strdupOk)
    \/ /\ last = NoCall
       /\ \E c \in {0, gctx.ptr}, group \in GroupEntries, props \in TextEntries,
             ok1 \in BOOLEAN, ok2 \in BOOLEAN :
            GenSetParams(c, group, props, ok1, ok2)
    \/ /\ last = NoCall
       /\ \E c \in {0, gctx.ptr}, keyNewOk \in BOOLEAN, genOk \in BOOLEAN :
            Gen(c, keyNewOk, genOk)
    \/ GenCleanup
    \/ Return

SpecGen == InitGen /\ [][NextGen]_vars

----------------------------------------------------------------------------
(* Properties *)

HasBit(selection, bit) == (selection \div bit) % 2 = 1

Present(buf) == ~buf.null

HoldsBoth(key) == Present(key.pubkey) /\ Present(key.privkey)

\* C1: oqsx_has returns true iff (the PUBLIC_KEY bit is clear or the public key
\* is present) and (the PRIVATE_KEY bit is clear or the private key is present);
\* the parameter bits never matter, and a null key handle yields false.
C1_HasIffParts ==
    last.op = "has" =>
      IF last.keydata = NULLKEY THEN last.ret = 0
      ELSE /\ last.ret \in {0, 1}
           /\ last.ret = 1 <=>
                /\ ( ~HasBit(last.selection, OSSL_KEYMGMT_SELECT_PUBLIC_KEY)
                     \/ Present(keys[last.keydata].pubkey) )
                /\ ( ~HasBit(last.selection, OSSL_KEYMGMT_SELECT_PRIVATE_KEY)
                     \/ Present(keys[last.keydata].privkey) )

\* a has call with all four bits set on a key holding both parts answers true
C1_Witness ==
    /\ last.op = "has"
    /\ last.keydata # NULLKEY
    /\ last.selection = OSSL_KEYMGMT_SELECT_ALL_PARAMETERS + OSSL_KEYMGMT_SELECT_KEYPAIR
    /\ HoldsBoth(keys[last.keydata])
    /\ last.ret = 1

\* C2: with a selection that includes PUBLIC_KEY, oqsx_match returns false for
\* two keys that both hold a public key (the same key compared with itself
\* included) and whenever the two algorithm names differ.
C2_PublicMatchFalse ==
    ( /\ last.op = "match"
      /\ HasBit(last.selection, OSSL_KEYMGMT_SELECT_PUBLIC_KEY)
      /\ \/ ( /\ Present(keys[last.keydata1].pubkey)
              /\ Present(keys[last.keydata2].pubkey) )
         \/ keys[last.keydata1].oqs_name # keys[last.keydata2].oqs_name )
    => (last.ret = 0 /\ ~last.fault)

\* a key holding a public key was matched with itself on {PUBLIC_KEY}: false
C2_Witness ==
    /\ last.op = "match"
    /\ last.selection = OSSL_KEYMGMT_SELECT_PUBLIC_KEY
    /\ last.keydata1 = last.keydata2
    /\ Present(keys[last.keydata1].pubkey)
    /\ last.ret = 0

\* C3: with selection exactly {PRIVATE_KEY}, oqsx_match returns true iff the
\* algorithm names are identical, the private keys are both present or both
\* absent and, when present, equal over the declared private length.
C3_PrivateMatchIff ==
    (last.op = "match" /\ last.selection = OSSL_KEYMGMT_SELECT_PRIVATE_KEY) =>
      LET key1 == keys[last.keydata1]
          key2 == keys[last.keydata2]
      IN /\ ~last.fault
         /\ last.ret \in {0, 1}
         /\ last.ret = 1 <=>
              /\ key1.oqs_name = key2.oqs_name
              /\ Present(key1.privkey) <=> Present(key2.privkey)
              /\ Present(key1.privkey) =>
                   \A i \in 1..privkeylen(key1.oqs_name) :
                      key1.privkey.bytes[i] = key2.privkey.bytes[i]

\* two distinct key objects holding the same private bytes matched on {PRIVATE_KEY}
C3_Witness ==
    /\ last.op = "match"
    /\ last.selection = OSSL_KEYMGMT_SELECT_PRIVATE_KEY
    /\ last.keydata1 # last.keydata2
    /\ Present(keys[last.keydata1].privkey)
    /\ Len(keys[last.keydata1].privkey.bytes) > 1
    /\ keys[last.keydata1].privkey = keys[last.keydata2].privkey
    /\ last.ret = 1

\* C4: after oqsx_set_params succeeds with an encoded-public-key parameter the
\* key holds exactly the supplied public bytes, its private key is absent, the
\* old private bytes were zeroed over their declared length before release,
\* and Has({Public}) is true and Has({Private}) is false.
C4_SetPublicErasesPrivate ==
    ( /\ last.op = "set_params"
      /\ last.ret = 1
      /\ last.params.entries.encoded_pub_key.present )
    => LET key == keys[last.key]
       IN /\ key.pubkey = Buf(last.params.entries.encoded_pub_key.data.bytes)
          /\ Len(key.pubkey.bytes) = pubkeylen(key.oqs_name)
          /\ ~Present(key.privkey)
          /\ last.released =
               IF Present(last.pre.privkey)
               THEN << Zeros(privkeylen(key.oqs_name)) >> ELSE <<>>
          /\ oqsx_has(last.key, OSSL_KEYMGMT_SELECT_PUBLIC_KEY) = 1
          /\ oqsx_has(last.key, OSSL_KEYMGMT_SELECT_PRIVATE_KEY) = 0

\* a key holding a non-zero private key and another public key got a new public key
C4_Witness ==
    /\ last.op = "set_params"
    /\ last.ret = 1
    /\ last.params.entries.encoded_pub_key.present
    /\ Present(last.pre.privkey)
    /\ last.pre.privkey.bytes # Zeros(Len(last.pre.privkey.bytes))
    /\ Present(last.pre.pubkey)
    /\ last.pre.pubkey # keys[last.key].pubkey

\* C5: for a key holding both parts, oqsx_export with a selection requesting the
\* key pair delivers to the callback a parameter array holding the public-key
\* entry with the key's public bytes and the private-key entry with the key's
\* private bytes.
C5_ExportDeliversKeyPair ==
    ( /\ last.op = "export"
      /\ last.keydata # NULLKEY
      /\ HasBit(last.selection, OSSL_KEYMGMT_SELECT_PUBLIC_KEY)
      /\ HasBit(last.selection, OSSL_KEYMGMT_SELECT_PRIVATE_KEY)
      /\ last.bldOk /\ last.toParamOk
      /\ HoldsBoth(keys[last.keydata]) )
    => /\ Len(last.calls) = 1
       /\ LET e == last.calls[1].entries
              key == keys[last.keydata]
          IN /\ e.pub.present /\ e.pub.data = key.pubkey
             /\ e.pub.data_size = pubkeylen(key.oqs_name)
             /\ e.priv.present /\ e.priv.data = key.privkey
             /\ e.priv.data_size = privkeylen(key.oqs_name)

\* C6: in every oqsx_export call the callback is invoked at most once and only
\* with a built parameter array; it is not invoked, and export returns failure,
\* when the key handle is null, the builder cannot be allocated or the array
\* cannot be built; when it is invoked export returns its result and the key
\* objects are unchanged.
C6_ExportCallbackOnce ==
    last.op = "export" =>
      /\ Len(last.calls) <= 1
      /\ (last.keydata = NULLKEY \/ ~last.bldOk \/ ~last.toParamOk)
           => (last.calls = <<>> /\ last.ret = 0)
      /\ last.calls # <<>> =>
           /\ ~last.calls[1].null
           /\ last.ret = last.cbret
           /\ sink.called /\ sink.params = last.calls[1]
           /\ keys = last.pre

\* an export whose array could not be built, and so did not reach the callback
C6_Witness ==
    /\ last.op = "export"
    /\ last.keydata # NULLKEY
    /\ last.bldOk /\ ~last.toParamOk
    /\ last.cbret = 1
    /\ last.calls = <<>>
    /\ last.ret = 0

\* C7: whenever oqsx_set_params returns failure the key's public key, private
\* key and property query are exactly as before the call, or the key is fully
\* cleaned up.
C7_SetParamsFailureAtomic ==
    (last.op = "set_params" /\ last.ret = 0) =>
      LET key == keys[last.key]
      IN \/ ( /\ key.pubkey = last.pre.pubkey
              /\ key.privkey = last.pre.privkey
              /\ key.propq = last.pre.propq )
         \/ ( /\ ~Present(key.pubkey)
              /\ ~Present(key.privkey)
              /\ key.propq.null )

\* the number of holders of key k: the reference, and every load call that returned it
Holders(k) ==
    (IF reference = k THEN 1 ELSE 0)
      + Cardinality({ i \in DOMAIN loads : loads[i].ret = k })

\* C8: oqsx_load with a reference of the size of a key pointer returns the key
\* the reference pointed to and sets the reference to null in the same step, so
\* at most one load call returns the key and the key never has two holders;
\* with any other size it returns no key and leaves the reference unchanged.
C8_LoadTransfersOwnership ==
    /\ \A k \in KeyIds : Holders(k) <= 1
    /\ last.op = "load" =>
         IF last.reference_sz = sizeof_key
         THEN last.ret = last.pre /\ reference = NULLKEY
         ELSE last.ret = NULLKEY /\ reference = last.pre

\* a load returned the key and a later load of the right size returned none
C8_Witness ==
    \E i \in DOMAIN loads : \E j \in DOMAIN loads :
       /\ i < j
       /\ loads[i].ret \in KeyIds
       /\ loads[j].reference_sz = sizeof_key
       /\ loads[j].ret = NULLKEY
       /\ reference = NULLKEY

\* C9: with selection {PUBLIC_KEY} and identical algorithm names, oqsx_match
\* returns false whenever exactly one of the two keys has a public key, in
\* either argument order, and true when neither has one.
C9_PublicPresenceRule ==
    ( /\ last.op = "match"
      /\ last.selection = OSSL_KEYMGMT_SELECT_PUBLIC_KEY
      /\ keys[last.keydata1].oqs_name = keys[last.keydata2].oqs_name )
    => LET p1 == Present(keys[last.keydata1].pubkey)
           p2 == Present(keys[last.keydata2].pubkey)
       IN /\ ~last.fault
          /\ (p1 # p2) => last.ret = 0
          /\ (~p1 /\ ~p2) => last.ret = 1

\* C10: exporting a key that holds both parts and importing the delivered
\* array into a freshly constructed key object of the same algorithm succeeds
\* and leaves the new object with the original's public and private bytes.
C10_RoundTrip ==
    ( /\ last.op = "import"
      /\ last.fromSink
      /\ last.keydata = "k2"
      /\ last.pre["k2"] \in FreshKeys
      /\ sink.keydata = "k1"
      /\ HasBit(sink.selection, OSSL_KEYMGMT_SELECT_PUBLIC_KEY)
      /\ HasBit(sink.selection, OSSL_KEYMGMT_SELECT_PRIVATE_KEY)
      /\ HasBit(last.selection, OSSL_KEYMGMT_SELECT_PUBLIC_KEY)
      /\ HasBit(last.selection, OSSL_KEYMGMT_SELECT_PRIVATE_KEY)
      /\ HoldsBoth(keys["k1"])
      /\ keys["k1"].oqs_name = keys["k2"].oqs_name )
    => /\ last.ret = 1
       /\ keys["k2"].pubkey = keys["k1"].pubkey
       /\ keys["k2"].privkey = keys["k1"].privkey

\* the blocks allocated on behalf of the generation context
ContextKinds == {"gctx", "oqs_name", "tls_name", "propq"}

\* C11: oqsx_gen_init either returns a context whose algorithm name is a copy of
\* the requested name, whose key-type class and selection equal the arguments
\* and whose property query and group name are absent, or returns no context.
C11_GenInitAllOrNothing ==
    last.op = "gen_init" =>
      IF last.ret = 0 THEN gctx = NoCtx
      ELSE /\ gctx.ptr = last.ret
           /\ StrAt(heap, gctx.oqs_name) = Str(last.oqs_name)
           /\ gctx.primitive = last.primitive
           /\ gctx.selection = last.selection
           /\ gctx.propq = 0
           /\ gctx.tls_name = 0

\* C12: oqsx_gen_set_params fails on a null context and on a non-textual
\* property query; on every failure the group name and the property query of
\* the context are as before the call; on success every supplied value is
\* stored as an owned copy.
C12_GenSetParamsAtomic ==
    last.op = "gen_set_params" =>
      /\ last.genctx = 0 => last.ret = 0
      /\ (last.props.present /\ last.props.data_type # OSSL_PARAM_UTF8_STRING)
           => last.ret = 0
      /\ last.ret = 0 =>
           /\ StrAt(heap, gctx.tls_name) = StrAt(last.preheap, last.pre.tls_name)
           /\ StrAt(heap, gctx.propq) = StrAt(last.preheap, last.pre.propq)
      /\ last.ret = 1 =>
           /\ last.group.present => StrAt(heap, gctx.tls_name) = last.group.data
           /\ last.props.present => StrAt(heap, gctx.propq) = last.props.data

\* C13: when key generation reports an error inside oqsx_gen, the call returns
\* no key and no key object allocated by the call remains allocated without an
\* owner.
C13_FailedGenDestroysKey ==
    ( /\ last.op = "gen"
      /\ last.genctx # 0
      /\ last.keyNewOk /\ ~last.genOk )
    => /\ last.ret = 0
       /\ \A i \in (Len(last.preheap) + 1)..Len(heap) :
             heap[i].kind = "key" => (heap[i].frees = 1 \/ heap[i].owner # "none")

\* C14: after oqsx_gen_cleanup every block allocated on behalf of the
\* generation context (the copied algorithm name, each stored group name, each
\* stored property query, the context itself) has been released exactly once.
C14_CleanupReleasesAll ==
    last.op = "gen_cleanup" =>
      \A i \in DOMAIN heap : heap[i].kind \in ContextKinds => heap[i].frees = 1

\* C15: for every selection for which oqs_imexport_types names the key
\* parameters, oqsx_import on a non-null key with a well-formed parameter array
\* of those types returns the result of the key-population routine and leaves
\* the key as that routine does; on a null key handle it fails and changes
\* nothing.
C15_ImportAgreesWithTypes ==
    last.op = "import" =>
      IF last.keydata = NULLKEY THEN last.ret = 0 /\ keys = last.pre
      ELSE LET key == last.pre[last.keydata]
               e == last.params.entries
               r == oqsx_key_fromdata(key, last.params, 1)
           IN ( /\ oqs_imexport_types(last.selection) # {}
                /\ e.pub.present /\ WellFormed(e.pub, key.pubkeylen)
                /\ e.priv.present /\ WellFormed(e.priv, key.privkeylen) )
              => /\ last.ret = (IF r.ret # 0 THEN 1 ELSE 0)
                 /\ keys[last.keydata] = r.key

====
